---- MODULE Spec2Model ----
(***************************************************************************)
(* Cart, checkout and order subsystem of the Regional E-commerce Platform  *)
(* (orders.py, products.py, auth.py, database.py, config.py).              *)
(*                                                                         *)
(* The persistent store is modelled table by table.  Rows of tables that   *)
(* are never deleted from (users, businesses, products, orders,            *)
(* order_items) are kept in sequences, the autoincrement primary key being *)
(* the index.  Rows of cart_items are deleted, so that table is a set of   *)
(* rows and its autoincrement counter is a variable of its own.            *)
(*                                                                         *)
(* Every operation of the program is an operator from the store, the       *)
(* current user and the arguments of the call to the store the call        *)
(* commits and the value it returns; the actions commit these stores.      *)
(*                                                                         *)
(* Money: Product.price and OrderItem.price_at_time are in cents,          *)
(* Order.total_amount is in hundredths of a cent, so that                  *)
(* total_amount + total_amount * TAX_RATE is represented exactly.          *)
(***************************************************************************)
EXTENDS Integers, Sequences, FiniteSets, TLC

VARIABLES
    current_user,   \* auth.user_session.current_user: 0 is None, else User.id
    users,          \* users table: users[id] is the role of the user
    businesses,     \* businesses table: businesses[id].owner_id
    products,       \* products table
    cart_items,     \* cart_items table (set of rows)
    next_cart_id,   \* autoincrement counter of cart_items.id
    orders,         \* orders table
    order_items,    \* order_items table
    sessions        \* sessions[u]: the checkout that a process of user u runs

vars == <<current_user, users, businesses, products, cart_items,
          next_cart_id, orders, order_items, sessions>>

\* the persistent store as one value
Store ==
    [users |-> users, businesses |-> businesses, products |-> products,
     cart_items |-> cart_items, next_cart_id |-> next_cart_id,
     orders |-> orders, order_items |-> order_items]

-----------------------------------------------------------------------------
(* Bounds of the model *)

MaxStock == 2          \* largest stock_quantity of the catalogue
MaxCartRows == 2       \* cart_items rows ever inserted
MaxOrders == 1         \* orders created while the merchant restocks
MaxProducts == 3       \* products of the catalogue, those added included

(* Program constants *)

TAX_RATE == 8          \* config.TAX_RATE = 0.08, in percent

OrderStatus == {"PENDING", "PAID", "SHIPPED", "DELIVERED", "CANCELLED"}

UserRole == {"CUSTOMER", "MERCHANT"}

\* prices, in cents, the merchant chooses among
Prices == {999, 1000}

\* quantities a caller asks for
QuantityInputs == 0..(MaxStock + 1)

ShippingAddresses == {"Kigali"}

-----------------------------------------------------------------------------
(* Return values: ret = "tuple" for (ok, msg), "none" for None; n is the   *)
(* number the message or payload carries, errors the reasons checkout      *)
(* lists.                                                                  *)

NoErrors == <<>>

Returned(ok, msg, n, errors) ==
    [ret |-> "tuple", ok |-> ok, msg |-> msg, n |-> n, errors |-> errors]

Failed(msg, n) == Returned(FALSE, msg, n, NoErrors)

Succeeded(msg, n) == Returned(TRUE, msg, n, NoErrors)

ReturnedNone ==
    [ret |-> "none", ok |-> FALSE, msg |-> "None", n |-> 0,
     errors |-> NoErrors]

\* what a call does: the store it leaves and the value it returns
Out(s, r) == [store |-> s, ret |-> r]

\* mutant: the call goes through with or without a current user
AnyCaller(u) == TRUE

\* login_required.wrapper: the call goes through only with a current user
login_required(u) == u # 0

\* merchant_required.wrapper
merchant_required(s, u) == u # 0 /\ s.users[u] = "MERCHANT"

-----------------------------------------------------------------------------
(* Queries *)

\* session.query(Product).filter(Product.id == id, Product.is_active == True)
ActiveProduct(s, product_id) ==
    product_id \in DOMAIN s.products /\ s.products[product_id].is_active

\* session.query(CartItem).filter(CartItem.user_id == u).all()
UserCart(s, u) == {c \in s.cart_items : c.user_id = u}

\* mutant: the caller's cart is never found to hold the product
NoCartRows(s, u, product_id) == {}

\* session.query(CartItem).filter(user_id == u, product_id == p)
CartRowsFor(s, u, product_id) ==
    {c \in s.cart_items : c.user_id = u /\ c.product_id = product_id}

\* mutant: the row is looked up by its id alone
AnyCartRows(s, u, cart_item_id) ==
    {c \in s.cart_items : c.id = cart_item_id}

\* session.query(CartItem).filter(id == cart_item_id, user_id == u)
OwnCartRows(s, u, cart_item_id) ==
    {c \in s.cart_items : c.id = cart_item_id /\ c.user_id = u}

\* .first(): the row with the lowest primary key
First(rows) == CHOOSE c \in rows : \A d \in rows : c.id <= d.id

\* .all(): the rows in primary-key order
RECURSIVE SortById(_)
SortById(rows) ==
    IF rows = {} THEN <<>>
    ELSE LET c == First(rows) IN <<c>> \o SortById(rows \ {c})

-----------------------------------------------------------------------------
(* orders.add_to_cart *)

\* mutant: add_to_cart without the stock check of line 53
NoStockLimit(product, quantity) == FALSE

\* line 53: if product.stock_quantity < quantity
NotEnoughStock(product, quantity) == product.stock_quantity < quantity

\* mutant: the requested quantity replaces the row's quantity
ReplacedQuantity(cart_item, quantity) == quantity

\* line 64: new_quantity = cart_item.quantity + quantity
new_quantity(cart_item, quantity) == cart_item.quantity + quantity

\* line 65: if new_quantity > product.stock_quantity
CannotAddMore(product, newq) == newq > product.stock_quantity

\* mutant: the quantity is written to every cart row
SetEveryQuantity(s, cart_item, quantity) ==
    [s EXCEPT !.cart_items = {[c EXCEPT !.quantity = quantity] : c \in @}]

\* lines 68-69 and 135-136: cart_item.quantity = ...; session.commit()
SetQuantity(s, cart_item, quantity) ==
    [s EXCEPT !.cart_items =
        (@ \ {cart_item}) \cup {[cart_item EXCEPT !.quantity = quantity]}]

\* mutant: adding to the cart reserves the units
ReservingInsert(s, u, product_id, quantity) ==
    [s EXCEPT
        !.cart_items = @ \cup
            {[id |-> s.next_cart_id, user_id |-> u,
              product_id |-> product_id, quantity |-> quantity]},
        !.next_cart_id = @ + 1,
        !.products[product_id].stock_quantity = @ - quantity]

\* lines 73-80: session.add(CartItem(...)); session.commit()
InsertCartItem(s, u, product_id, quantity) ==
    [s EXCEPT
        !.cart_items = @ \cup
            {[id |-> s.next_cart_id, user_id |-> u,
              product_id |-> product_id, quantity |-> quantity]},
        !.next_cart_id = @ + 1]

\* quantity is the value of int(quantity); parses is FALSE when int() raises
add_to_cart(s, u, product_id, quantity, parses) ==
    IF ~login_required(u) THEN Out(s, ReturnedNone)
    ELSE IF ~parses THEN Out(s, Failed("Invalid quantity.", 0))
    ELSE IF quantity <= 0 THEN
        Out(s, Failed("Quantity must be a positive number.", 0))
    ELSE IF ~ActiveProduct(s, product_id) THEN
        Out(s, Failed("Product not found or unavailable.", 0))
    ELSE
        LET product == s.products[product_id]
            rows == CartRowsFor(s, u, product_id)
        IN
        IF NotEnoughStock(product, quantity) THEN
            Out(s, Failed("Not enough stock. Available:",
                          product.stock_quantity))
        ELSE IF rows # {} THEN
            LET cart_item == First(rows)
                newq == new_quantity(cart_item, quantity)
            IN
            IF CannotAddMore(product, newq) THEN
                Out(s, Failed("Cannot add more. Maximum available:",
                              product.stock_quantity))
            ELSE Out(SetQuantity(s, cart_item, newq),
                     Succeeded("Item quantity updated in cart.", 0))
        ELSE Out(InsertCartItem(s, u, product_id, quantity),
                 Succeeded("Item added to cart.", 0))

-----------------------------------------------------------------------------
(* orders.remove_from_cart *)

\* mutant: removing a row takes its quantity off the stock
DeleteAndDeduct(s, cart_item) ==
    [s EXCEPT !.cart_items = @ \ {cart_item},
              !.products[cart_item.product_id].stock_quantity =
                  @ - cart_item.quantity]

\* mutant: the row is kept, with quantity 0
ZeroedCartItem(s, cart_item) ==
    [s EXCEPT !.cart_items =
        (@ \ {cart_item}) \cup {[cart_item EXCEPT !.quantity = 0]}]

\* lines 169-170: session.delete(cart_item); session.commit()
DeleteCartItem(s, cart_item) ==
    [s EXCEPT !.cart_items = @ \ {cart_item}]

remove_from_cart(s, u, cart_item_id) ==
    IF ~login_required(u) THEN Out(s, ReturnedNone)
    ELSE
        LET rows == OwnCartRows(s, u, cart_item_id) IN
        IF rows = {} THEN Out(s, Failed("Cart item not found.", 0))
        ELSE Out(DeleteCartItem(s, First(rows)),
                 Succeeded("Item removed from cart.", 0))

-----------------------------------------------------------------------------
(* orders.update_cart_item *)

\* mutant: update_cart_item without the stock check of line 131
NeverExceedsStock(product, quantity) == FALSE

\* line 131: if quantity > product.stock_quantity
ExceedsStock(product, quantity) == quantity > product.stock_quantity

update_cart_item(s, u, cart_item_id, quantity, parses) ==
    IF ~login_required(u) THEN Out(s, ReturnedNone)
    ELSE IF ~parses THEN Out(s, Failed("Invalid quantity.", 0))
    ELSE IF quantity <= 0 THEN remove_from_cart(s, u, cart_item_id)
    ELSE
        LET rows == OwnCartRows(s, u, cart_item_id) IN
        IF rows = {} THEN Out(s, Failed("Cart item not found.", 0))
        ELSE
            LET cart_item == First(rows) IN
            IF cart_item.product_id \notin DOMAIN s.products THEN
                Out(s, Failed("Product not found.", 0))
            ELSE
                LET product == s.products[cart_item.product_id] IN
                IF ExceedsStock(product, quantity) THEN
                    Out(s, Failed("Not enough stock. Available:",
                                  product.stock_quantity))
                ELSE Out(SetQuantity(s, cart_item, quantity),
                         Succeeded("Cart updated successfully.", 0))

-----------------------------------------------------------------------------
(* orders.clear_cart *)

\* lines 191-195: query(CartItem).filter(user_id == u).delete(); commit()
DeleteUserCart(s, u) == [s EXCEPT !.cart_items = @ \ UserCart(s, u)]

clear_cart(s, u) ==
    IF ~login_required(u) THEN Out(s, ReturnedNone)
    ELSE Out(DeleteUserCart(s, u), Succeeded("Cart cleared successfully.", 0))

-----------------------------------------------------------------------------
(* orders.checkout *)

\* line 306: if not product: continue
ProductFound(s, cart_item) == cart_item.product_id \in DOMAIN s.products

\* mutant: checkout without the stock check of line 317
NoStockCheck(product, cart_item) == FALSE

\* line 317: if product.stock_quantity < cart_item.quantity
StockShort(product, cart_item) == product.stock_quantity < cart_item.quantity

\* lines 310-321: the reasons a cart line is refused for (none, or one)
LineErrors(s, cart_item) ==
    LET product == s.products[cart_item.product_id] IN
    IF ~product.is_active THEN
        << [kind |-> "is no longer available.",
            product_id |-> cart_item.product_id, n |-> 0] >>
    ELSE IF StockShort(product, cart_item) THEN
        << [kind |-> "has only N available.",
            product_id |-> cart_item.product_id,
            n |-> product.stock_quantity] >>
    ELSE <<>>

\* mutant: the loop stops at the first line that is refused
FirstErrorOnly(s, lines) ==
    LET failing == {i \in DOMAIN lines :
                       /\ ProductFound(s, lines[i])
                       /\ LineErrors(s, lines[i]) # <<>>}
    IN IF failing = {} THEN <<>>
       ELSE LineErrors(s, lines[CHOOSE i \in failing :
                                    \A j \in failing : i <= j])

\* lines 299-321: insufficient_stock after the loop over cart_items
RECURSIVE insufficient_stock(_, _)
insufficient_stock(s, lines) ==
    IF lines = <<>> THEN <<>>
    ELSE (IF ProductFound(s, Head(lines)) THEN LineErrors(s, Head(lines))
          ELSE <<>>) \o insufficient_stock(s, Tail(lines))

\* line 331: "price_at_time": product.price
PriceSnapshot(product) == product.price

\* lines 328-332: the entry appended for a line that validated
ItemData(s, cart_item) ==
    [product_id |-> cart_item.product_id,
     quantity |-> cart_item.quantity,
     price_at_time |-> PriceSnapshot(s.products[cart_item.product_id])]

\* lines 298-332: order_items_data after the loop over cart_items
RECURSIVE order_items_data(_, _)
order_items_data(s, lines) ==
    IF lines = <<>> THEN <<>>
    ELSE (IF ProductFound(s, Head(lines))
             /\ LineErrors(s, Head(lines)) = <<>>
          THEN << ItemData(s, Head(lines)) >>
          ELSE <<>>) \o order_items_data(s, Tail(lines))

\* lines 297-325: total_amount after the loop, in cents
\* (subtotal = product.price * cart_item.quantity; total_amount += subtotal)
RECURSIVE Subtotal(_)
Subtotal(items) ==
    IF items = <<>> THEN 0
    ELSE Head(items).price_at_time * Head(items).quantity
         + Subtotal(Tail(items))

\* mutant: the tax is not added
WithoutTax(total_cents) == total_cents * 100

\* lines 341-342: tax = total_amount * TAX_RATE; total_amount += tax
\* (cents in, hundredths of a cent out)
WithTax(total_cents) == total_cents * 100 + total_cents * TAX_RATE

\* lines 345-353: session.add(Order(...)); session.flush()
AddOrder(s, u, total_amount, shipping_address) ==
    [s EXCEPT !.orders = Append(@,
        [user_id |-> u, total_amount |-> total_amount, status |-> "PENDING",
         shipping_address |-> shipping_address])]

\* mutant: only the first entry of order_items_data becomes an OrderItem
AddFirstOrderItem(s, order_id, items) ==
    [s EXCEPT !.order_items = @ \o
        [i \in 1..(IF items = <<>> THEN 0 ELSE 1) |->
            [order_id |-> order_id, product_id |-> items[i].product_id,
             quantity |-> items[i].quantity,
             price_at_time |-> items[i].price_at_time]]]

\* lines 356-363: session.add(OrderItem(...)) for every item_data
AddOrderItems(s, order_id, items) ==
    [s EXCEPT !.order_items = @ \o
        [i \in 1..Len(items) |->
            [order_id |-> order_id, product_id |-> items[i].product_id,
             quantity |-> items[i].quantity,
             price_at_time |-> items[i].price_at_time]]]

\* mutant: one unit is deducted, whatever the quantity ordered
ReducedStockByOne(stock_quantity, quantity) == stock_quantity - 1

\* line 369: product.stock_quantity -= item_data["quantity"]
ReducedStock(stock_quantity, quantity) == stock_quantity - quantity

\* lines 356-369: the products table after the loop over order_items_data
RECURSIVE ReduceStocks(_, _)
ReduceStocks(s, items) ==
    IF items = <<>> THEN s
    ELSE ReduceStocks(
             [s EXCEPT !.products[Head(items).product_id].stock_quantity =
                           ReducedStock(@, Head(items).quantity)],
             Tail(items))

\* lines 344-377: the unit of work checkout commits
PlaceOrder(s, u, items, shipping_address) ==
    LET total_amount == WithTax(Subtotal(items))
        s1 == AddOrder(s, u, total_amount, shipping_address)
        s2 == AddOrderItems(s1, Len(s1.orders), items)
        s3 == ReduceStocks(s2, items)
    IN DeleteUserCart(s3, u)

\* mutant: the stock of the lines that validated is deducted all the same
AbortCheckoutPartial(s, items, errors) ==
    Out(ReduceStocks(s, items),
        Returned(FALSE, "Cannot create order due to inventory issues:",
                 0, errors))

\* lines 335-338: if insufficient_stock: return False, error_message
\* (nothing of order_items_data, the lines that validated, is written)
AbortCheckout(s, items, errors) ==
    Out(s, Returned(FALSE, "Cannot create order due to inventory issues:",
                    0, errors))

\* the payload of a successful checkout is the Order; n is its id
checkout(s, u, shipping_address) ==
    IF ~login_required(u) THEN Out(s, ReturnedNone)
    ELSE IF UserCart(s, u) = {} THEN Out(s, Failed("Your cart is empty.", 0))
    ELSE
        LET lines == SortById(UserCart(s, u))
            errors == insufficient_stock(s, lines)
            items == order_items_data(s, lines)
        IN
        IF errors # <<>> THEN AbortCheckout(s, items, errors)
        ELSE Out(PlaceOrder(s, u, items, shipping_address),
                 Succeeded("Order created successfully!", Len(s.orders) + 1))

-----------------------------------------------------------------------------
(* products.update_product *)

\* an optional argument: None, or a value
None == [some |-> FALSE, v |-> 0]

Some(v) == [some |-> TRUE, v |-> v]

\* session.query(Product).join(Business).filter(Product.id == product_id,
\*                                    Business.owner_id == current_user.id)
OwnProduct(s, u, product_id) ==
    /\ product_id \in DOMAIN s.products
    /\ s.products[product_id].business_id \in DOMAIN s.businesses
    /\ s.businesses[s.products[product_id].business_id].owner_id = u

\* lines 328-335: the fields update_product assigns
UpdatedProduct(product, price, stock_quantity, is_active) ==
    [product EXCEPT
        !.price = IF price.some THEN price.v ELSE @,
        !.stock_quantity = IF stock_quantity.some THEN stock_quantity.v ELSE @,
        !.is_active = IF is_active.some THEN is_active.v ELSE @]

\* mutant: the new price is written to the order items of the product too
SaveProductRepricing(s, product_id, product) ==
    [s EXCEPT
        !.products[product_id] = product,
        !.order_items =
            [i \in DOMAIN @ |->
                IF @[i].product_id = product_id
                THEN [@[i] EXCEPT !.price_at_time = product.price]
                ELSE @[i]]]

\* line 337: session.commit() of the product assigned to
SaveProduct(s, product_id, product) ==
    [s EXCEPT !.products[product_id] = product]

\* parses is FALSE when float(price) or int(stock_quantity) raises ValueError
update_product(s, u, product_id, price, stock_quantity, is_active, parses) ==
    IF ~merchant_required(s, u) THEN Out(s, ReturnedNone)
    ELSE IF ~OwnProduct(s, u, product_id) THEN
        Out(s, Failed("Product not found or doesn't belong to your business.",
                      0))
    ELSE IF ~parses THEN Out(s, Failed("Invalid price or stock quantity.", 0))
    ELSE Out(SaveProduct(s, product_id,
                 UpdatedProduct(s.products[product_id], price, stock_quantity,
                                is_active)),
             Succeeded("product", product_id))

-----------------------------------------------------------------------------
(* orders.checkout when the persistent store raises in the write phase *)

\* the points of the write phase at which the session can raise
WritePhaseFailures == {"flush", "item", "delete", "commit"}

\* lines 344-377, up to the statement that raises: what the session holds
\* uncommitted at that moment
PendingWrites(s, u, items, shipping_address, failure) ==
    LET total_amount == WithTax(Subtotal(items))
        s1 == AddOrder(s, u, total_amount, shipping_address)
        first == SubSeq(items, 1, 1)
        s2 == ReduceStocks(AddOrderItems(s1, Len(s1.orders), first), first)
        s3 == ReduceStocks(AddOrderItems(s1, Len(s1.orders), items), items)
    IN CASE failure = "flush" -> s
         [] failure = "item" -> s2
         [] failure = "delete" -> s3
         [] failure = "commit" -> DeleteUserCart(s3, u)

\* mutant: the uncommitted writes stay
KeepPending(s, pending) == pending

\* line 387: session.rollback() discards what the session holds uncommitted
Rollback(s, pending) == s

\* lines 386-388: except Exception: session.rollback(); return False, message
checkout_raising(s, u, shipping_address, failure) ==
    LET out == checkout(s, u, shipping_address) IN
    IF ~out.ret.ok THEN out
    ELSE LET items == order_items_data(s, SortById(UserCart(s, u))) IN
         Out(Rollback(s, PendingWrites(s, u, items, shipping_address,
                                       failure)),
             Failed("Error creating order:", 0))

-----------------------------------------------------------------------------
(* orders.checkout run by several processes on the one database: a process *)
(* reads and validates (lines 289-338), and later writes and commits       *)
(* (lines 341-377); other processes run in between                         *)

\* a process that is not inside checkout
IdleSession ==
    [pc |-> "idle", items |-> <<>>, stock |-> <<>>, shipping_address |-> ""]

\* lines 302-304: the stock_quantity of the Product objects the session has
\* loaded for the lines that validated
LoadedStock(s, items) ==
    [p \in {items[i].product_id : i \in DOMAIN items} |->
        s.products[p].stock_quantity]

\* lines 298-338 passed: order_items_data and the loaded products are what
\* the process goes on with
ValidatedSession(s, u, shipping_address) ==
    LET items == order_items_data(s, SortById(UserCart(s, u))) IN
    [pc |-> "validated", items |-> items, stock |-> LoadedStock(s, items),
     shipping_address |-> shipping_address]

\* lines 289-338: the call gets past the validation
validates(s, u) ==
    /\ login_required(u)
    /\ UserCart(s, u) # {}
    /\ insufficient_stock(s, SortById(UserCart(s, u))) = <<>>

\* lines 365-369: the query returns the Product object the session already
\* holds, so the quantity is subtracted from the stock_quantity loaded by
\* the validation and the result is what the UPDATE writes
WithLoadedStock(s, stock) ==
    [s EXCEPT !.products =
        [p \in DOMAIN @ |->
            IF p \in DOMAIN stock
            THEN [@[p] EXCEPT !.stock_quantity = stock[p]]
            ELSE @[p]]]

\* mutant: the write phase checks the stock again, in the database
RevalidatedWrite(s, u, session) ==
    IF \E i \in DOMAIN session.items :
           s.products[session.items[i].product_id].stock_quantity
               < session.items[i].quantity
    THEN Out(s, Failed("Cannot create order due to inventory issues:", 0))
    ELSE Out(PlaceOrder(s, u, session.items, session.shipping_address),
             Succeeded("Order created successfully!", Len(s.orders) + 1))

\* lines 341-384 run on the store as it is by then
write_checkout(s, u, session) ==
    Out(PlaceOrder(WithLoadedStock(s, session.stock), u, session.items,
                   session.shipping_address),
        Succeeded("Order created successfully!", Len(s.orders) + 1))

-----------------------------------------------------------------------------
(* auth.register_business and products.add_product *)

\* session.query(Business).filter(Business.owner_id == u)
OwnedBusinesses(s, u) ==
    {b \in DOMAIN s.businesses : s.businesses[b].owner_id = u}

\* .first() of a query of ids
FirstId(ids) == CHOOSE i \in ids : \A j \in ids : i <= j

register_business(s, u) ==
    IF u = 0 \/ s.users[u] # "MERCHANT" THEN
        Out(s, Failed("Only merchants can register businesses.", 0))
    ELSE IF OwnedBusinesses(s, u) # {} THEN
        Out(s, Failed("You already have a registered business.", 0))
    ELSE Out([s EXCEPT !.businesses = Append(@, [owner_id |-> u])],
             Succeeded("business", Len(s.businesses) + 1))

\* session.query(Business).filter(Business.id == business_id,
\*                                Business.owner_id == current_user.id)
OwnBusiness(s, u, business_id) ==
    /\ business_id \in DOMAIN s.businesses
    /\ s.businesses[business_id].owner_id = u

\* lines 268-275: Product(business_id, price=float(price),
\* stock_quantity=int(stock_quantity)); is_active defaults to True
NewProduct(business_id, price, stock_quantity) ==
    [business_id |-> business_id, price |-> price,
     stock_quantity |-> stock_quantity, is_active |-> TRUE]

\* parses is FALSE when float(price) or int(stock_quantity) raises ValueError
add_product(s, u, business_id, price, stock_quantity, parses) ==
    IF business_id = 0 THEN Out(s, Failed("Missing business ID.", 0))
    ELSE IF u = 0 THEN
        Out(s, Failed("User session not found. Please log in again.", 0))
    ELSE IF ~OwnBusiness(s, u, business_id) THEN
        Out(s, Failed("Business not found or you don't have permission.", 0))
    ELSE IF ~parses THEN Out(s, Failed("Invalid price or stock quantity.", 0))
    ELSE Out([s EXCEPT !.products =
                  Append(@, NewProduct(business_id, price, stock_quantity))],
             Succeeded("Product added successfully.", Len(s.products) + 1))

-----------------------------------------------------------------------------
(* orders.update_order_status *)

\* session.query(Product.id).filter(Product.business_id == business_id)
ProductIdsOf(s, business_id) ==
    {p \in DOMAIN s.products : s.products[p].business_id = business_id}

\* mutant: the items of the order are not filtered by product
AllItemsOfOrder(s, order_id, product_ids) ==
    {i \in DOMAIN s.order_items : s.order_items[i].order_id = order_id}

\* session.query(OrderItem).filter(OrderItem.order_id == order_id,
\*                                 OrderItem.product_id.in_(product_ids))
OrderItemsIn(s, order_id, product_ids) ==
    {i \in DOMAIN s.order_items :
        /\ s.order_items[i].order_id = order_id
        /\ s.order_items[i].product_id \in product_ids}

\* the value of a successful update_order_status: the message names the old
\* and the new status
StatusUpdated(old_status, new_status) ==
    [ret |-> "tuple", ok |-> TRUE, msg |-> "Order status updated from to",
     old_status |-> old_status, new_status |-> new_status]

\* mutant: any merchant with products may update any order
AnyOrder(s, order_id, product_ids) == order_id \in DOMAIN s.orders

\* lines 564-567
order_contains_merchant_products(s, order_id, product_ids) ==
    OrderItemsIn(s, order_id, product_ids) # {}

\* mutant: an order that was delivered or cancelled keeps its status
FinalStatusKept(old_status, new_status) ==
    IF old_status \in {"DELIVERED", "CANCELLED"} THEN old_status
    ELSE new_status

\* line 580: order.status = new_status
AssignedStatus(old_status, new_status) == new_status

\* mutant: the update resets the order's total as well
SetStatusAndTotal(s, order_id, status) ==
    [s EXCEPT !.orders[order_id].status = status,
              !.orders[order_id].total_amount = 0]

\* mutant: cancelling puts a unit of every product ordered back in stock
SetStatusRestocking(s, order_id, status) ==
    [s EXCEPT
        !.orders[order_id].status = status,
        !.products =
            [p \in DOMAIN @ |->
                IF /\ status = "CANCELLED"
                   /\ \E i \in DOMAIN s.order_items :
                          /\ s.order_items[i].order_id = order_id
                          /\ s.order_items[i].product_id = p
                THEN [@[p] EXCEPT !.stock_quantity = @ + 1]
                ELSE @[p]]]

\* lines 580-581
SetStatus(s, order_id, status) ==
    [s EXCEPT !.orders[order_id].status = status]

update_order_status(s, u, order_id, new_status) ==
    IF ~merchant_required(s, u) THEN Out(s, ReturnedNone)
    ELSE IF OwnedBusinesses(s, u) = {} THEN
        Out(s, Failed("You don't have a registered business.", 0))
    ELSE
        LET merchant_product_ids ==
                ProductIdsOf(s, FirstId(OwnedBusinesses(s, u)))
        IN
        IF merchant_product_ids = {} THEN
            Out(s, Failed("You don't have any products listed.", 0))
        ELSE IF ~order_contains_merchant_products(s, order_id,
                                                  merchant_product_ids) THEN
            Out(s, Failed("You cannot update this order because it doesn't contain any of your products.", 0))
        ELSE IF order_id \notin DOMAIN s.orders THEN
            Out(s, Failed("Order not found.", order_id))
        ELSE
            LET old_status == s.orders[order_id].status IN
            Out(SetStatus(s, order_id, AssignedStatus(old_status, new_status)),
                StatusUpdated(old_status, new_status))

-----------------------------------------------------------------------------
(* The queries of orders: what they return; they write nothing *)

\* a list of orders, by id
ReturnedList(ids) == [ret |-> "list", ids |-> ids]

\* an Order object
ReturnedOrder(s, order_id) ==
    [ret |-> "order", id |-> order_id, order |-> s.orders[order_id]]

\* (order, order_items) of view_merchant_order_details; (None, []) is
\* ReturnedPair(0, {})
ReturnedPair(order_id, items) ==
    [ret |-> "pair", id |-> order_id, items |-> items]

\* ids in descending order: order_by(Order.created_at.desc())
RECURSIVE Descending(_)
Descending(ids) ==
    IF ids = {} THEN <<>>
    ELSE LET m == CHOOSE i \in ids : \A j \in ids : j <= i
         IN <<m>> \o Descending(ids \ {m})

\* ids in ascending order
RECURSIVE Ascending(_)
Ascending(ids) ==
    IF ids = {} THEN <<>>
    ELSE <<FirstId(ids)>> \o Ascending(ids \ {FirstId(ids)})

\* mutant: the orders of every user
AllOrders(s, u) == DOMAIN s.orders

\* lines 408-409: session.query(Order).filter(Order.user_id == u)
OrdersOf(s, u) == {o \in DOMAIN s.orders : s.orders[o].user_id = u}

list_orders(s, u) ==
    IF ~login_required(u) THEN ReturnedNone
    ELSE ReturnedList(Descending(OrdersOf(s, u)))

view_order_details(s, u, order_id) ==
    IF ~login_required(u) THEN ReturnedNone
    ELSE IF order_id \notin OrdersOf(s, u) THEN ReturnedNone
    ELSE ReturnedOrder(s, order_id)

\* mutant: the orders that contain any product at all
OrdersWithItems(s, product_ids) ==
    {s.order_items[i].order_id : i \in DOMAIN s.order_items}

\* lines 717-719: session.query(Order).join(OrderItem).filter(
\*     OrderItem.product_id.in_(product_ids)).distinct()
OrdersContaining(s, product_ids) ==
    {o \in DOMAIN s.orders : OrderItemsIn(s, o, product_ids) # {}}

view_merchant_orders(s, u, business_id) ==
    IF ~merchant_required(s, u) THEN ReturnedNone
    ELSE IF ~OwnBusiness(s, u, business_id) THEN ReturnedList(<<>>)
    ELSE IF ProductIdsOf(s, business_id) = {} THEN ReturnedList(<<>>)
    ELSE ReturnedList(Ascending(
             OrdersContaining(s, ProductIdsOf(s, business_id))))

\* lines 604-635: the products of business_id are looked up without a check
\* of who owns the business
view_merchant_order_details(s, u, order_id, business_id) ==
    IF ~merchant_required(s, u) THEN ReturnedNone
    ELSE IF ProductIdsOf(s, business_id) = {} THEN ReturnedPair(0, {})
    ELSE IF order_id \notin DOMAIN s.orders THEN ReturnedPair(0, {})
    ELSE IF OrderItemsIn(s, order_id, ProductIdsOf(s, business_id)) = {} THEN
        ReturnedPair(0, {})
    ELSE ReturnedPair(order_id,
             OrderItemsIn(s, order_id, ProductIdsOf(s, business_id)))

\* lines 648-658: total after the loop over order_items, in cents
\* (subtotal = item.price_at_time * item.quantity; total += subtotal)
RECURSIVE YourTotal(_, _)
YourTotal(s, items) ==
    IF items = {} THEN 0
    ELSE LET i == FirstId(items)
         IN s.order_items[i].price_at_time * s.order_items[i].quantity
            + YourTotal(s, items \ {i})

\* line 669: the total printed as "Your Total" next to order.total_amount,
\* for a call that reaches line 671
printed_total(s, u, order_id, business_id) ==
    YourTotal(s, view_merchant_order_details(s, u, order_id,
                                             business_id).items)

-----------------------------------------------------------------------------
(* State after set-up: nobody is logged in; a customer (user 1) and a      *)
(* merchant (user 2) are registered, the merchant owns business 1, which   *)
(* lists two products; there are no cart rows and no orders.               *)

InitialProducts ==
    << [business_id |-> 1, price |-> 1000, stock_quantity |-> MaxStock,
        is_active |-> TRUE],
       [business_id |-> 1, price |-> 999, stock_quantity |-> 1,
        is_active |-> TRUE] >>

Init ==
    /\ current_user = 0
    /\ users = <<"CUSTOMER", "MERCHANT">>
    /\ businesses = << [owner_id |-> 2] >>
    /\ products = InitialProducts
    /\ cart_items = {}
    /\ next_cart_id = 1
    /\ orders = <<>>
    /\ order_items = <<>>
    /\ sessions = [u \in DOMAIN users |-> IdleSession]

-----------------------------------------------------------------------------
(* Actions: a call is made and the store it leaves is committed *)

CommitStore(out) ==
    /\ users' = out.store.users
    /\ businesses' = out.store.businesses
    /\ products' = out.store.products
    /\ cart_items' = out.store.cart_items
    /\ next_cart_id' = out.store.next_cart_id
    /\ orders' = out.store.orders
    /\ order_items' = out.store.order_items

\* a call made by the user logged in at the menu
Commit(out) == CommitStore(out) /\ UNCHANGED <<current_user, sessions>>

\* the bound of the model on the autoincrement counter of cart_items
WithinBounds(out) == out.store.next_cart_id <= MaxCartRows + 1

\* auth.login, lines 132-133: set_current_user(user_copy)
Login(u) ==
    /\ u \in DOMAIN users
    /\ current_user' = u
    /\ UNCHANGED <<users, businesses, products, cart_items, next_cart_id,
                   orders, order_items, sessions>>

\* main.logout: auth.clear_current_user()
Logout ==
    /\ current_user # 0
    /\ current_user' = 0
    /\ UNCHANGED <<users, businesses, products, cart_items, next_cart_id,
                   orders, order_items, sessions>>

\* the product ids a caller names: those of the catalogue and an absent one
ProductInputs == 1..(Len(products) + 1)

\* the cart row ids a caller names
CartItemInputs == 1..MaxCartRows

\* an argument that does not parse has no value: 0 stands for it
AddToCart ==
    \E product_id \in ProductInputs, quantity \in QuantityInputs,
       parses \in BOOLEAN :
        LET out == add_to_cart(Store, current_user, product_id, quantity,
                               parses)
        IN (~parses => quantity = 0) /\ WithinBounds(out) /\ Commit(out)

UpdateCartItem ==
    \E cart_item_id \in CartItemInputs, quantity \in QuantityInputs,
       parses \in BOOLEAN :
        LET out == update_cart_item(Store, current_user, cart_item_id,
                                    quantity, parses)
        IN (~parses => quantity = 0) /\ Commit(out)

RemoveFromCart ==
    \E cart_item_id \in CartItemInputs :
        Commit(remove_from_cart(Store, current_user, cart_item_id))

ClearCart == Commit(clear_cart(Store, current_user))

Checkout ==
    \E shipping_address \in ShippingAddresses :
        LET out == checkout(Store, current_user, shipping_address)
        IN Commit(out)

\* the calls of update_product explored: one field at a time (as
\* toggle_product_menu does for is_active), price and stock together (as
\* update_product_menu does), and a call whose price does not parse
Edits ==
    {[price |-> Some(p), stock_quantity |-> None, is_active |-> None,
      parses |-> TRUE] : p \in Prices}
    \cup {[price |-> None, stock_quantity |-> Some(n), is_active |-> None,
           parses |-> TRUE] : n \in {-1, 0, MaxStock}}
    \cup {[price |-> None, stock_quantity |-> None, is_active |-> Some(b),
           parses |-> TRUE] : b \in BOOLEAN}
    \cup {[price |-> Some(999), stock_quantity |-> Some(1),
           is_active |-> None, parses |-> TRUE],
          [price |-> Some(0), stock_quantity |-> None, is_active |-> None,
           parses |-> FALSE]}

\* the products the merchant edits: product 1 and an absent one; product 2
\* keeps its listing
EditedProducts == {1, Len(products) + 1}

UpdateProduct ==
    \E product_id \in EditedProducts, e \in Edits :
        Commit(update_product(Store, current_user, product_id, e.price,
                              e.stock_quantity, e.is_active, e.parses))

-----------------------------------------------------------------------------
(* Specifications *)

\* the cart and checkout operations, called in turn by the users; stock is
\* not replenished, so the orders are bounded by the cart rows inserted
NextCart ==
    \/ \E u \in DOMAIN users : Login(u)
    \/ Logout
    \/ AddToCart
    \/ UpdateCartItem
    \/ RemoveFromCart
    \/ ClearCart
    \/ Checkout

SpecCart == Init /\ [][NextCart]_vars

\* checkout while the merchant restocks: the orders created are bounded
BoundedCheckout == Checkout /\ Len(orders') <= MaxOrders

\* the cart and checkout operations and the merchant's update_product
Next ==
    \/ \E u \in DOMAIN users : Login(u)
    \/ Logout
    \/ AddToCart
    \/ UpdateCartItem
    \/ RemoveFromCart
    \/ ClearCart
    \/ BoundedCheckout
    \/ UpdateProduct

Spec == Init /\ [][Next]_vars

-----------------------------------------------------------------------------
(* Two merchants: a second merchant (user 3) is registered, who owns no    *)
(* business yet; business 1 lists one product.                             *)

InitMerchants ==
    /\ current_user = 0
    /\ users = <<"CUSTOMER", "MERCHANT", "MERCHANT">>
    /\ businesses = << [owner_id |-> 2] >>
    /\ products = SubSeq(InitialProducts, 1, 1)
    /\ cart_items = {}
    /\ next_cart_id = 1
    /\ orders = <<>>
    /\ order_items = <<>>
    /\ sessions = [u \in DOMAIN users |-> IdleSession]

RegisterBusiness == Commit(register_business(Store, current_user))

\* the business ids a caller names: none (0), those registered, an absent one
BusinessInputs == 0..(Len(businesses) + 1)

\* the price (cents) and stock of the products added: a listing of one unit
\* given away at price 0, and one whose price does not parse
NewListings ==
    {[price |-> 0, stock_quantity |-> 1, parses |-> TRUE],
     [price |-> 0, stock_quantity |-> 0, parses |-> FALSE]}

AddProduct ==
    \E business_id \in BusinessInputs, n \in NewListings :
        LET out == add_product(Store, current_user, business_id, n.price,
                               n.stock_quantity, n.parses)
        IN Len(out.store.products) <= MaxProducts /\ Commit(out)

\* the order ids a caller names: those created and an absent one
OrderInputs == 1..(Len(orders) + 1)

UpdateOrderStatus ==
    \E order_id \in OrderInputs, new_status \in OrderStatus :
        Commit(update_order_status(Store, current_user, order_id, new_status))

CheckoutRaises ==
    \E shipping_address \in ShippingAddresses, failure \in WritePhaseFailures :
        Commit(checkout_raising(Store, current_user, shipping_address,
                                failure))

\* a process of user u calls checkout and gets past the validation
CheckoutValidates(u) ==
    /\ sessions[u].pc = "idle"
    /\ validates(Store, u)
    /\ \E shipping_address \in ShippingAddresses :
           sessions' = [sessions EXCEPT
                            ![u] = ValidatedSession(Store, u,
                                                    shipping_address)]
    /\ UNCHANGED <<current_user, users, businesses, products, cart_items,
                   next_cart_id, orders, order_items>>

\* the process of user u writes and commits what it validated
CheckoutWrites(u) ==
    /\ sessions[u].pc = "validated"
    /\ CommitStore(write_checkout(Store, u, sessions[u]))
    /\ sessions' = [sessions EXCEPT ![u] = IdleSession]
    /\ UNCHANGED current_user

\* the users fill their carts, and their processes check out at once
NextRace ==
    \/ \E u \in DOMAIN users : Login(u)
    \/ Logout
    \/ AddToCart
    \/ \E u \in DOMAIN users : CheckoutValidates(u)
    \/ \E u \in DOMAIN users : CheckoutWrites(u)

SpecRace == Init /\ [][NextRace]_vars

\* the merchants set up their businesses and catalogues, the users order,
\* the merchants update the status of the orders
NextMerchants ==
    \/ \E u \in DOMAIN users : Login(u)
    \/ Logout
    \/ RegisterBusiness
    \/ AddProduct
    \/ AddToCart
    \/ BoundedCheckout
    \/ UpdateOrderStatus

SpecMerchants == InitMerchants /\ [][NextMerchants]_vars

\* every operation of the program that writes to the store
NextAll ==
    \/ \E u \in DOMAIN users : Login(u)
    \/ Logout
    \/ AddToCart
    \/ UpdateCartItem
    \/ RemoveFromCart
    \/ ClearCart
    \/ BoundedCheckout
    \/ CheckoutRaises
    \/ UpdateProduct
    \/ RegisterBusiness
    \/ AddProduct
    \/ UpdateOrderStatus

SpecAll == Init /\ [][NextAll]_vars

-----------------------------------------------------------------------------
(* Properties.  A property of an operation is stated of the call made in   *)
(* every reachable state, by the current user, with every argument.        *)

\* the cart rows of the caller
Mine == {c \in cart_items : c.user_id = current_user}

\* a cart line that checkout refuses
Refused(c) ==
    \/ ~products[c.product_id].is_active
    \/ products[c.product_id].stock_quantity < c.quantity

StockOf(table) == [p \in DOMAIN table |-> table[p].stock_quantity]

\* C1: in every state reached by add_to_cart, update_cart_item,
\* remove_from_cart, clear_cart and checkout calls made in turn by the users,
\* from products with stock_quantity >= 0, every product has
\* stock_quantity >= 0.
C1_StockNeverNegative ==
    \A p \in DOMAIN products : products[p].stock_quantity >= 0

\* an order was placed and left a cart line asking for more than the stock
C1_Witness ==
    /\ Len(orders) >= 1
    /\ \E c \in cart_items :
           /\ c.quantity > products[c.product_id].stock_quantity
           /\ products[c.product_id].stock_quantity = 0

\* C2: a checkout that fails (empty cart, or a line of an inactive product,
\* or a line asking for more than the stock) leaves the whole store
\* unchanged: no Order, no OrderItem, no stock deducted (also not for the
\* lines that validated), the caller's cart rows kept.
C2_FailedCheckoutChangesNothing ==
    \A shipping_address \in ShippingAddresses :
        LET out == checkout(Store, current_user, shipping_address) IN
        current_user # 0 =>
            /\ (Mine = {} \/ \E c \in Mine : Refused(c)) => ~out.ret.ok
            /\ ~out.ret.ok =>
                   /\ out.store.orders = orders
                   /\ out.store.order_items = order_items
                   /\ out.store.products = products
                   /\ out.store.cart_items = cart_items
                   /\ out.store = Store

\* the caller's cart holds a line that is refused and a line that validates
C2_Witness ==
    /\ current_user # 0
    /\ \E c, d \in Mine :
           /\ ~products[c.product_id].is_active
           /\ ~Refused(d)
           /\ d.quantity >= 1
    /\ \A a \in ShippingAddresses :
           ~checkout(Store, current_user, a).ret.ok

\* C3: a successful checkout decreases the stock of each product in the
\* caller's cart by exactly the line's quantity, deletes all of the caller's
\* cart rows, and leaves every other product and every other user's cart
\* rows unchanged.
C3_CheckoutDeductsAndEmptiesCart ==
    \A shipping_address \in ShippingAddresses :
        LET out == checkout(Store, current_user, shipping_address) IN
        out.ret.ok =>
            /\ DOMAIN out.store.products = DOMAIN products
            /\ \A c \in Mine :
                   out.store.products[c.product_id] =
                       [products[c.product_id] EXCEPT
                           !.stock_quantity = @ - c.quantity]
            /\ \A p \in DOMAIN products :
                   (\A c \in Mine : c.product_id # p) =>
                       out.store.products[p] = products[p]
            /\ out.store.cart_items = cart_items \ Mine
            /\ out.store.next_cart_id = next_cart_id

\* an order took the whole stock of a product (stock = quantity, as in
\* stock 5 with quantity 5): the stock is 0, the buyer's cart is empty and
\* the other user's cart row is still there
C3_Witness ==
    /\ Len(orders) = 1
    /\ \E i \in DOMAIN order_items :
           /\ order_items[i].quantity = MaxStock
           /\ products[order_items[i].product_id].stock_quantity = 0
    /\ \A c \in cart_items : c.user_id # orders[1].user_id
    /\ cart_items # {}
    /\ orders[1].status = "PENDING"

\* C4: a successful checkout creates exactly one Order, owned by the caller
\* with status PENDING, and exactly one OrderItem per cart line of the
\* caller, with the line's product_id and quantity and price_at_time the
\* product's price at the moment of checkout.
C4_CheckoutCreatesOrderAndItems ==
    \A shipping_address \in ShippingAddresses :
        LET out == checkout(Store, current_user, shipping_address)
            new_id == Len(orders) + 1
            added == (Len(order_items) + 1)..Len(out.store.order_items)
        IN
        out.ret.ok =>
            /\ Len(out.store.orders) = Len(orders) + 1
            /\ SubSeq(out.store.orders, 1, Len(orders)) = orders
            /\ out.store.orders[new_id].user_id = current_user
            /\ out.store.orders[new_id].status = "PENDING"
            /\ out.ret.n = new_id
            /\ SubSeq(out.store.order_items, 1, Len(order_items)) = order_items
            /\ Cardinality(added) = Cardinality(Mine)
            /\ \A c \in Mine :
                   Cardinality({i \in added : out.store.order_items[i] =
                       [order_id |-> new_id, product_id |-> c.product_id,
                        quantity |-> c.quantity,
                        price_at_time |-> products[c.product_id].price]}) = 1

\* an order with two items exists
C4_Witness ==
    \E i, j \in DOMAIN order_items :
        /\ i # j
        /\ order_items[i].order_id = order_items[j].order_id
        /\ order_items[i].product_id # order_items[j].product_id
        /\ orders[order_items[i].order_id].status = "PENDING"

\* C5: once an OrderItem exists, no later operation changes its
\* price_at_time, nor the total_amount of its Order; in particular not
\* update_product changing the price of the product.
C5_OrderPricesNeverChange ==
    [][/\ \A i \in DOMAIN order_items :
              /\ i \in DOMAIN order_items'
              /\ order_items'[i].price_at_time = order_items[i].price_at_time
       /\ \A j \in DOMAIN orders :
              /\ j \in DOMAIN orders'
              /\ orders'[j].total_amount = orders[j].total_amount]_vars

\* the price of a product was changed after it was ordered
C5_Witness ==
    \E i \in DOMAIN order_items :
        order_items[i].price_at_time # products[order_items[i].product_id].price

\* the subtotal of a set of cart rows at the products' current prices, cents
RECURSIVE CartSubtotal(_)
CartSubtotal(rows) ==
    IF rows = {} THEN 0
    ELSE LET c == CHOOSE r \in rows : TRUE IN
         products[c.product_id].price * c.quantity + CartSubtotal(rows \ {c})

\* round(x, 2) of an amount held in hundredths of a cent
Round2(amount) ==
    LET cents == amount \div 100
        rest == amount % 100
    IN IF rest > 50 \/ (rest = 50 /\ cents % 2 = 1)
       THEN (cents + 1) * 100
       ELSE cents * 100

\* C6 as stated: the total_amount of the Order created by checkout equals
\* round(subtotal * (1 + TAX_RATE), 2).  Violated: price 9.99, quantity 1
\* stores 10.7892, not 10.79.
C6_TotalIsRoundedToCents ==
    \A shipping_address \in ShippingAddresses :
        LET out == checkout(Store, current_user, shipping_address) IN
        out.ret.ok =>
            out.store.orders[Len(orders) + 1].total_amount =
                Round2(CartSubtotal(Mine) * (100 + TAX_RATE))

\* C6: the total_amount of the Order created by checkout equals
\* subtotal * (1 + TAX_RATE) with TAX_RATE = 0.08, not rounded, where
\* subtotal is the sum over the cart lines of the product's current price
\* times the line quantity; for one line with price 10.00 and quantity 2 the
\* total is 21.60.
C6_TotalIsSubtotalPlusTax ==
    \A shipping_address \in ShippingAddresses :
        LET out == checkout(Store, current_user, shipping_address)
            total_amount == out.store.orders[Len(orders) + 1].total_amount
        IN
        out.ret.ok =>
            /\ total_amount = CartSubtotal(Mine) * (100 + TAX_RATE)
            /\ (\E c \in Mine : /\ Mine = {c}
                                /\ products[c.product_id].price = 1000
                                /\ c.quantity = 2)
                   => total_amount = 216000

\* one line of quantity 2 at price 10.00 was ordered for 21.60
C6_Witness ==
    \E o \in DOMAIN orders :
        /\ orders[o].total_amount = 216000
        /\ \E i \in DOMAIN order_items :
               /\ order_items[i].order_id = o
               /\ order_items[i].price_at_time = 1000
               /\ order_items[i].quantity = 2
        /\ Cardinality({i \in DOMAIN order_items :
                            order_items[i].order_id = o}) = 1

\* the preconditions add_to_cart refuses
Unavailable(product_id) ==
    \/ product_id \notin DOMAIN products
    \/ ~products[product_id].is_active

\* C7: an add_to_cart call that fails (quantity not a positive integer,
\* product absent or inactive, or quantity greater than the stock) creates
\* no cart row and changes no cart row; with stock 3 and quantity 5 it fails
\* reporting the available amount 3.
C7_FailedAddChangesNoCartRow ==
    /\ \A product_id \in ProductInputs, quantity \in QuantityInputs,
          parses \in BOOLEAN :
           LET out == add_to_cart(Store, current_user, product_id,
                                  quantity, parses)
           IN
           /\ (\/ ~parses
               \/ quantity <= 0
               \/ Unavailable(product_id)
               \/ quantity > products[product_id].stock_quantity)
                  => ~out.ret.ok
           /\ ~out.ret.ok =>
                  /\ out.store.cart_items = cart_items
                  /\ out.store = Store
           /\ (/\ current_user # 0
               /\ parses
               /\ quantity > 0
               /\ ~Unavailable(product_id)
               /\ quantity > products[product_id].stock_quantity)
                  => out.ret = Failed("Not enough stock. Available:",
                                      products[product_id].stock_quantity)
    /\ current_user # 0 =>
           LET s == [Store EXCEPT !.products[1].stock_quantity = 3,
                                  !.products[1].is_active = TRUE]
               out == add_to_cart(s, current_user, 1, 5, TRUE)
           IN /\ out.ret = Failed("Not enough stock. Available:", 3)
              /\ out.store = s

\* a user with a cart row is logged in and a product is on sale with less
\* stock than a quantity that can be asked for
C7_Witness ==
    /\ current_user # 0
    /\ Mine # {}
    /\ \E product_id \in DOMAIN products, quantity \in QuantityInputs :
           /\ products[product_id].is_active
           /\ products[product_id].stock_quantity >= 1
           /\ quantity > products[product_id].stock_quantity

\* C8: add_to_cart for a product already in the caller's cart sets the row's
\* quantity to old quantity + requested quantity when the sum is <= the
\* stock, and otherwise fails leaving the row unchanged, even when the
\* requested quantity alone is within stock.
C8_AddToExistingRowSums ==
    \A c \in Mine, quantity \in QuantityInputs :
        LET out == add_to_cart(Store, current_user, c.product_id,
                               quantity, TRUE)
            stock == products[c.product_id].stock_quantity
        IN
        (current_user # 0 /\ quantity > 0 /\ ~Unavailable(c.product_id)) =>
            IF c.quantity + quantity <= stock
            THEN /\ out.ret.ok
                 /\ out.store =
                        [Store EXCEPT !.cart_items = (cart_items \ {c}) \cup
                            {[c EXCEPT !.quantity = c.quantity + quantity]}]
            ELSE /\ ~out.ret.ok
                 /\ out.store = Store

\* the caller has a row to which one quantity can be added and another,
\* itself within stock, cannot
C8_Witness ==
    /\ current_user # 0
    /\ \E c \in Mine, q1, q2 \in QuantityInputs :
           /\ ~Unavailable(c.product_id)
           /\ q1 > 0
           /\ c.quantity + q1 <= products[c.product_id].stock_quantity
           /\ q2 > 0
           /\ q2 <= products[c.product_id].stock_quantity
           /\ c.quantity + q2 > products[c.product_id].stock_quantity

\* C9 as stated: every CartItem has quantity <= the stock of its product in
\* every reachable state.  Violated: another user's checkout or the
\* merchant's update_product lowers the stock under the quantity of a row.
C9_CartNeverExceedsStock ==
    \A c \in cart_items :
        c.quantity <= products[c.product_id].stock_quantity

\* the rows of a cart that an operation created or changed
Written(out) == out.store.cart_items \ cart_items

\* C9: immediately after a successful add_to_cart or update_cart_item the
\* row it created or changed has quantity <= the stock of its product (and
\* quantity >= 1); nothing keeps this true afterwards.
C9_WrittenRowWithinStock ==
    \A product_id \in ProductInputs, cart_item_id \in CartItemInputs,
       quantity \in QuantityInputs :
        LET added == add_to_cart(Store, current_user, product_id,
                                 quantity, TRUE)
            updated == update_cart_item(Store, current_user, cart_item_id,
                                        quantity, TRUE)
        IN
        /\ added.ret.ok =>
               /\ Cardinality(Written(added)) = 1
               /\ \A c \in Written(added) :
                      /\ c.quantity >= 1
                      /\ c.quantity <= products[c.product_id].stock_quantity
        /\ updated.ret.ok =>
               /\ Cardinality(Written(updated)) <= 1
               /\ \A c \in Written(updated) :
                      /\ c.quantity = quantity
                      /\ c.quantity >= 1
                      /\ c.quantity <= products[c.product_id].stock_quantity

\* a row was written with the whole stock of its product
C9_Witness ==
    \E c \in cart_items :
        /\ c.quantity = MaxStock
        /\ c.quantity = products[c.product_id].stock_quantity
        /\ orders = <<>>

\* C10: add_to_cart, update_cart_item, remove_from_cart and clear_cart,
\* whether they succeed or fail, leave every product's stock_quantity
\* unchanged; add_to_cart followed at once by remove_from_cart of a row
\* leaves the stock as it was before the add.
C10_CartOperationsKeepStock ==
    \A product_id \in ProductInputs, quantity \in QuantityInputs,
       parses \in BOOLEAN, cart_item_id \in CartItemInputs \cup {next_cart_id} :
        LET added == add_to_cart(Store, current_user, product_id,
                                 quantity, parses)
        IN
        /\ StockOf(added.store.products) = StockOf(products)
        /\ StockOf(update_cart_item(Store, current_user, cart_item_id,
                                    quantity, parses).store.products)
               = StockOf(products)
        /\ StockOf(remove_from_cart(Store, current_user,
                                    cart_item_id).store.products)
               = StockOf(products)
        /\ StockOf(clear_cart(Store, current_user).store.products)
               = StockOf(products)
        /\ StockOf(remove_from_cart(added.store, current_user,
                                    cart_item_id).store.products)
               = StockOf(products)

\* two rows were added and one removed again, and the stock is what it was
C10_Witness ==
    /\ next_cart_id = 3
    /\ Cardinality(cart_items) = 1
    /\ orders = <<>>
    /\ StockOf(products) = StockOf(InitialProducts)

\* the step is a successful checkout of the current user
CheckoutStep ==
    \E shipping_address \in ShippingAddresses :
        LET out == checkout(Store, current_user, shipping_address)
        IN out.ret.ok /\ Commit(out)

\* the step is a successful update_product of product_id by the current
\* user that gives a stock_quantity
StockEditStep(product_id) ==
    \E e \in Edits :
        LET out == update_product(Store, current_user, product_id, e.price,
                                  e.stock_quantity, e.is_active, e.parses)
        IN /\ out.ret.ok
           /\ e.stock_quantity.some
           /\ OwnProduct(Store, current_user, product_id)
           /\ Commit(out)
           /\ products'[product_id].stock_quantity = e.stock_quantity.v

\* C11 as stated: over all operations, any step in which the stock of some
\* product decreases is a successful checkout.  Violated: the owner's
\* update_product sets a lower stock_quantity.
C11_StockDecreasesOnlyAtCheckout ==
    [][\A p \in DOMAIN products :
           products'[p].stock_quantity < products[p].stock_quantity
               => CheckoutStep]_vars

\* C11: over all operations, any step in which the stock of a product
\* decreases is a successful checkout or a successful update_product of the
\* product by its owner that sets the stock_quantity given; cart operations,
\* failed checkouts, update_order_status, register_business and add_product
\* never decrease it.
C11_StockDecreasesAtCheckoutOrEdit ==
    [][\A p \in DOMAIN products :
           products'[p].stock_quantity < products[p].stock_quantity
               => (CheckoutStep \/ StockEditStep(p))]_vars

\* the merchant lowered the stock of product 1 and nothing was ordered
C11_Witness ==
    /\ orders = <<>>
    /\ products[1].stock_quantity < InitialProducts[1].stock_quantity
    /\ current_user # 0
    /\ OwnProduct(Store, current_user, 1)

\* the caller is a merchant who owns a business that lists a product which
\* an item of the order references
MayUpdate(u, order_id) ==
    /\ u # 0
    /\ users[u] = "MERCHANT"
    /\ \E b \in DOMAIN businesses, i \in DOMAIN order_items :
           /\ businesses[b].owner_id = u
           /\ order_items[i].order_id = order_id
           /\ order_items[i].product_id \in DOMAIN products
           /\ products[order_items[i].product_id].business_id = b

\* C12: update_order_status changes an order's status only when the caller
\* is a merchant who owns a business, the business has a product, and the
\* order has an item referencing such a product; in every other case
\* (customer, no business, no products, none of their products in the order,
\* order absent) it fails and leaves the status, and the store, unchanged.
C12_StatusUpdateNeedsOwnProductInOrder ==
    \A order_id \in OrderInputs, new_status \in OrderStatus :
        LET out == update_order_status(Store, current_user, order_id,
                                       new_status)
        IN IF MayUpdate(current_user, order_id)
           THEN /\ out.ret.ok
                /\ order_id \in DOMAIN orders
                /\ out.store =
                       [Store EXCEPT !.orders[order_id].status = new_status]
           ELSE /\ ~out.ret.ok
                /\ out.store = Store

\* a merchant whose business lists a product is logged in, and an order
\* with none of their products has had its status updated by the other
\* merchant
C12_Witness ==
    /\ current_user # 0
    /\ users[current_user] = "MERCHANT"
    /\ \E b \in DOMAIN businesses :
           /\ businesses[b].owner_id = current_user
           /\ ProductIdsOf(Store, b) # {}
    /\ \E o \in DOMAIN orders :
           /\ ~MayUpdate(current_user, o)
           /\ orders[o].status # "PENDING"

\* the orders with an item that references a product of the business
OrdersOfBusiness(business_id) ==
    {o \in DOMAIN orders :
        \E i \in DOMAIN order_items :
            /\ order_items[i].order_id = o
            /\ products[order_items[i].product_id].business_id = business_id}

\* the elements of a sequence
Range(seq) == {seq[i] : i \in DOMAIN seq}

C14_DetailsOnlyForOwnBusiness ==
    \A order_id \in OrderInputs, business_id \in BusinessInputs :
        (/\ current_user # 0
         /\ users[current_user] = "MERCHANT"
         /\ ~OwnBusiness(Store, current_user, business_id))
            => view_merchant_order_details(Store, current_user, order_id,
                                           business_id) = ReturnedPair(0, {})

\* the step is a successful update_order_status of the order by the current
\* user, a merchant with a product in the order
StatusStep(order_id) ==
    \E new_status \in OrderStatus :
        LET out == update_order_status(Store, current_user, order_id,
                                       new_status)
        IN /\ out.ret.ok
           /\ MayUpdate(current_user, order_id)
           /\ Commit(out)
           /\ orders'[order_id].status = new_status

\* C15: an Order is immutable except for its status: in every step of every
\* operation, each existing order keeps its user_id, total_amount and
\* shipping_address, each existing OrderItem keeps its contents, no
\* OrderItem is added to an existing order, and the status changes only in
\* a successful update_order_status by a merchant with a product in the
\* order.
C15_OrderImmutableExceptStatus ==
    [][/\ \A o \in DOMAIN orders :
              /\ o \in DOMAIN orders'
              /\ orders'[o].user_id = orders[o].user_id
              /\ orders'[o].total_amount = orders[o].total_amount
              /\ orders'[o].shipping_address = orders[o].shipping_address
              /\ orders'[o].status # orders[o].status => StatusStep(o)
       /\ \A i \in DOMAIN order_items :
              /\ i \in DOMAIN order_items'
              /\ order_items'[i] = order_items[i]
       /\ \A i \in DOMAIN order_items' \ DOMAIN order_items :
              order_items'[i].order_id \notin DOMAIN orders]_vars

\* the status of an order was updated, and its buyer is logged in with a
\* new cart row
C15_Witness ==
    \E o \in DOMAIN orders :
        /\ orders[o].status = "DELIVERED"
        /\ current_user = orders[o].user_id
        /\ Mine # {}

\* C16: an authorized update_order_status overwrites the status whatever it
\* was: for every old and new status among PENDING, PAID, SHIPPED, DELIVERED
\* and CANCELLED, DELIVERED to PENDING and old = new included, the call
\* succeeds, the order ends with the new status and the result reports the
\* old and the new status.
C16_StatusOverwrittenUnconditionally ==
    \A o \in DOMAIN orders, new_status \in OrderStatus :
        LET out == update_order_status(Store, current_user, o, new_status) IN
        MayUpdate(current_user, o) =>
            /\ orders[o].status \in OrderStatus
            /\ out.ret.ok
            /\ out.ret = StatusUpdated(orders[o].status, new_status)
            /\ out.store.orders[o].status = new_status

\* a delivered order, which a merchant with a product in it can reset to
\* PENDING
C16_Witness ==
    \E o \in DOMAIN orders :
        /\ orders[o].status = "DELIVERED"
        /\ MayUpdate(current_user, o)
        /\ update_order_status(Store, current_user, o,
                               "PENDING").store.orders[o].status = "PENDING"

\* C17: list_orders returns exactly the orders whose user_id is the
\* caller's, and view_order_details returns an order only if it belongs to
\* the caller; asking for another user's order gives None, the same outcome
\* as asking for an order id that does not exist.
C17_OrdersScopedToCaller ==
    current_user # 0 =>
        /\ LET r == list_orders(Store, current_user) IN
           /\ r.ret = "list"
           /\ Range(r.ids) =
                  {o \in DOMAIN orders : orders[o].user_id = current_user}
           /\ Len(r.ids) = Cardinality(Range(r.ids))
        /\ \A order_id \in OrderInputs :
               LET r == view_order_details(Store, current_user, order_id) IN
               IF /\ order_id \in DOMAIN orders
                  /\ orders[order_id].user_id = current_user
               THEN /\ r.ret = "order"
                    /\ r.id = order_id
                    /\ r.order = orders[order_id]
               ELSE /\ r = ReturnedNone
                    /\ r = view_order_details(Store, current_user,
                                              Len(orders) + 1)

\* a user is logged in while the order placed belongs to another user
C17_Witness ==
    /\ current_user # 0
    /\ \E o \in DOMAIN orders :
           /\ orders[o].user_id # current_user
           /\ view_order_details(Store, current_user, o) = ReturnedNone
    /\ list_orders(Store, current_user) = ReturnedList(<<>>)

\* the call failed and wrote nothing
Refuses(out) == ~out.ret.ok /\ out.store = Store

\* C18: authorization is checked before any mutation: every cart operation
\* and checkout called with no authenticated identity, and
\* update_order_status called by no identity or by a non-merchant, returns a
\* failure and leaves the store (cart rows, products, orders, order items)
\* unchanged.
C18_UnauthorizedCallsChangeNothing ==
    /\ \A product_id \in ProductInputs, quantity \in QuantityInputs,
          parses \in BOOLEAN :
           Refuses(add_to_cart(Store, 0, product_id, quantity, parses))
    /\ \A cart_item_id \in CartItemInputs, quantity \in QuantityInputs,
          parses \in BOOLEAN :
           Refuses(update_cart_item(Store, 0, cart_item_id, quantity, parses))
    /\ \A cart_item_id \in CartItemInputs :
           Refuses(remove_from_cart(Store, 0, cart_item_id))
    /\ Refuses(clear_cart(Store, 0))
    /\ \A shipping_address \in ShippingAddresses :
           Refuses(checkout(Store, 0, shipping_address))
    /\ \A u \in 0..Len(users), order_id \in OrderInputs,
          new_status \in OrderStatus :
           (u = 0 \/ users[u] # "MERCHANT") =>
               Refuses(update_order_status(Store, u, order_id, new_status))

\* nobody is logged in; there are cart rows to change and a pending order
C18_Witness ==
    /\ current_user = 0
    /\ cart_items # {}
    /\ \E c \in cart_items :
           products[c.product_id].stock_quantity >= c.quantity
    /\ \E o \in DOMAIN orders : orders[o].status = "PENDING"

\* C19: a failure of the persistent store during the write phase of
\* checkout (creating the Order, creating OrderItems and deducting stock,
\* deleting the cart rows, committing) rolls the whole unit back: the call
\* fails and the store equals its state before the call, with no stock
\* deducted, no Order, no OrderItem, and the cart intact.
C19_FailedWritePhaseRollsBack ==
    \A shipping_address \in ShippingAddresses,
       failure \in WritePhaseFailures :
        LET out == checkout_raising(Store, current_user, shipping_address,
                                    failure)
        IN /\ ~out.ret.ok
           /\ out.store.products = products
           /\ out.store.orders = orders
           /\ out.store.order_items = order_items
           /\ out.store.cart_items = cart_items
           /\ out.store = Store

\* the caller's cart holds two lines that validate, so that the write phase
\* is entered and the loop over the items can fail half-way
C19_Witness ==
    /\ current_user # 0
    /\ Cardinality(Mine) = 2
    /\ \A c \in Mine : ~Refused(c)
    /\ \A a \in ShippingAddresses : checkout(Store, current_user, a).ret.ok
    /\ \A a \in ShippingAddresses :
           PendingWrites(Store, current_user,
               order_items_data(Store, SortById(Mine)), a, "item") # Store

\* C20 as stated: every product has stock_quantity >= 0 in every reachable
\* state, and price > 0 when created, for every input that add_product and
\* update_product accept.  Violated: update_product stores a negative
\* stock_quantity, and add_product a price of 0.
C20_StockNonNegativePricePositive ==
    /\ \A p \in DOMAIN products : products[p].stock_quantity >= 0
    /\ \A business_id \in BusinessInputs, n \in NewListings :
           LET out == add_product(Store, current_user, business_id, n.price,
                                  n.stock_quantity, n.parses)
           IN out.ret.ok =>
                  /\ out.store.products[Len(products) + 1].price > 0
                  /\ out.store.products[Len(products) + 1].stock_quantity >= 0


\* the value is a (success flag, payload-or-message) pair
IsPair(out) == out.ret.ret = "tuple"

\* C21 as stated: add_to_cart, update_cart_item, remove_from_cart,
\* clear_cart, checkout and update_order_status each return a (success flag,
\* payload-or-error-message) pair on every call, also with no authenticated
\* identity or a non-merchant caller.  Violated: the wrappers of
\* login_required and merchant_required return None.
C21_EveryCallReturnsAPair ==
    /\ \A product_id \in ProductInputs, quantity \in QuantityInputs,
          parses \in BOOLEAN :
           IsPair(add_to_cart(Store, current_user, product_id, quantity,
                              parses))
    /\ \A cart_item_id \in CartItemInputs, quantity \in QuantityInputs,
          parses \in BOOLEAN :
           IsPair(update_cart_item(Store, current_user, cart_item_id,
                                   quantity, parses))
    /\ \A cart_item_id \in CartItemInputs :
           IsPair(remove_from_cart(Store, current_user, cart_item_id))
    /\ IsPair(clear_cart(Store, current_user))
    /\ \A shipping_address \in ShippingAddresses :
           IsPair(checkout(Store, current_user, shipping_address))
    /\ \A order_id \in OrderInputs, new_status \in OrderStatus :
           IsPair(update_order_status(Store, current_user, order_id,
                                      new_status))


\* the items of the order that reference a product of the business
ItemsOfBusiness(order_id, business_id) ==
    {i \in DOMAIN order_items :
        /\ order_items[i].order_id = order_id
        /\ products[order_items[i].product_id].business_id = business_id}

\* price_at_time * quantity summed over the first n order items that are in
\* the set
RECURSIVE SumOver(_, _)
SumOver(items, n) ==
    IF n = 0 THEN 0
    ELSE SumOver(items, n - 1)
         + (IF n \in items
            THEN order_items[n].price_at_time * order_items[n].quantity
            ELSE 0)

\* C22: called by a merchant, view_merchant_order_details(order_id,
\* business_id) returns the order with exactly those of its OrderItems whose
\* product belongs to business_id, never an item of another business's
\* product, the partial total it shows is the sum of price_at_time * quantity
\* over those items, and it returns (None, []) when the order has no such
\* item.
C22_DetailsAreTheItemsOfTheBusiness ==
    \A order_id \in OrderInputs, business_id \in BusinessInputs :
        (current_user # 0 /\ users[current_user] = "MERCHANT") =>
            LET result == view_merchant_order_details(Store, current_user,
                              order_id, business_id)
                items == ItemsOfBusiness(order_id, business_id)
            IN IF order_id \in DOMAIN orders /\ items # {}
               THEN /\ result = ReturnedPair(order_id, items)
                    /\ printed_total(Store, current_user, order_id,
                                     business_id)
                           = SumOver(items, Len(order_items))
               ELSE result = ReturnedPair(0, {})

\* a merchant is logged in and an order holds items of two businesses: the
\* call for one of them returns some, not all, of the order's items, with a
\* partial total above zero
C22_Witness ==
    /\ current_user # 0
    /\ users[current_user] = "MERCHANT"
    /\ \E order_id \in DOMAIN orders, business_id \in DOMAIN businesses :
           LET result == view_merchant_order_details(Store, current_user,
                             order_id, business_id)
           IN /\ result.id = order_id
              /\ result.items # {}
              /\ \E i \in DOMAIN order_items :
                     /\ order_items[i].order_id = order_id
                     /\ i \notin result.items
              /\ printed_total(Store, current_user, order_id, business_id) > 0


\* the store as it is, and as it is after the owner of product 2 has called
\* update_product on it
StoresAfterEdit ==
    {Store} \cup
    {update_product(Store, businesses[products[2].business_id].owner_id, 2,
                    e.price, e.stock_quantity, e.is_active, e.parses).store :
        e \in Edits}

\* the cart lines of the current user that checkout must refuse in store s
FailingLines(s) ==
    {c \in Mine : \/ ~s.products[c.product_id].is_active
                  \/ s.products[c.product_id].stock_quantity < c.quantity}

\* the reason the claim gives for a failing line
ReasonFor(s, c) ==
    IF ~s.products[c.product_id].is_active
    THEN [kind |-> "is no longer available.", product_id |-> c.product_id,
          n |-> 0]
    ELSE [kind |-> "has only N available.", product_id |-> c.product_id,
          n |-> s.products[c.product_id].stock_quantity]

\* C23: when checkout validation fails, the aggregated error lists one
\* reason for every failing cart line, not only the first: "<name> is no
\* longer available." for an inactive product (also when its stock is short
\* as well), "<name> has only N available." with N the current stock for an
\* active product whose stock is below the line's quantity; nothing is
\* listed for a line that validates.
C23_OneReasonPerFailingLine ==
    \A s \in StoresAfterEdit, shipping_address \in ShippingAddresses :
        (current_user # 0 /\ Mine # {}) =>
            LET out == checkout(s, current_user, shipping_address)
                failing == FailingLines(s)
            IN /\ out.ret.ok <=> failing = {}
               /\ Len(out.ret.errors) = Cardinality(failing)
               /\ \A c \in failing :
                      \E i \in DOMAIN out.ret.errors :
                          out.ret.errors[i] = ReasonFor(s, c)

\* the caller's cart holds two lines; the product of one is inactive and
\* short of stock as well, and once the stock of product 2 is edited both
\* lines fail and two reasons are listed
C23_Witness ==
    /\ current_user # 0
    /\ Cardinality(Mine) = 2
    /\ \E c \in Mine :
           /\ ~products[c.product_id].is_active
           /\ products[c.product_id].stock_quantity < c.quantity
    /\ \E s \in StoresAfterEdit, shipping_address \in ShippingAddresses :
           /\ Cardinality(FailingLines(s)) = 2
           /\ Len(checkout(s, current_user, shipping_address).ret.errors) = 2


\* the quantities a caller passes, a negative one included
SignedQuantities == QuantityInputs \cup {-1}

\* the cart rows with the id that belong to the current user
MineWithId(cart_item_id) == {c \in Mine : c.id = cart_item_id}

\* C24: update_cart_item(cart_item_id, quantity) with quantity <= 0 behaves
\* exactly as remove_from_cart(cart_item_id); with quantity > 0 it sets the
\* row's quantity to the given value only if the row belongs to the caller
\* and quantity <= the product's current stock_quantity, and otherwise fails
\* (not found, or not enough stock) leaving every cart row, and the store,
\* unchanged.
C24_UpdateSetsOrRemovesOwnRow ==
    \A cart_item_id \in CartItemInputs, quantity \in SignedQuantities :
        current_user # 0 =>
            LET out == update_cart_item(Store, current_user, cart_item_id,
                                        quantity, TRUE)
                rows == MineWithId(cart_item_id)
            IN IF quantity <= 0
               THEN out = remove_from_cart(Store, current_user, cart_item_id)
               ELSE IF rows = {}
               THEN /\ out.ret = Failed("Cart item not found.", 0)
                    /\ out.store = Store
               ELSE \A c \in rows :
                   IF quantity <= products[c.product_id].stock_quantity
                   THEN /\ out.ret.ok
                        /\ out.store =
                               [Store EXCEPT !.cart_items =
                                   (@ \ {c}) \cup
                                   {[c EXCEPT !.quantity = quantity]}]
                   ELSE /\ out.ret =
                               Failed("Not enough stock. Available:",
                                      products[c.product_id].stock_quantity)
                        /\ out.store = Store

\* the caller owns a row and there is a second row: a quantity within the
\* stock is stored, one above the stock is refused, and 0 removes the row
C24_Witness ==
    /\ current_user # 0
    /\ Cardinality(cart_items) = 2
    /\ \E c \in Mine :
           /\ c.quantity = 1
           /\ update_cart_item(Store, current_user, c.id, 2, TRUE).ret.ok
           /\ ~update_cart_item(Store, current_user, c.id, MaxStock + 1,
                                TRUE).ret.ok
           /\ update_cart_item(Store, current_user, c.id, 0,
                               TRUE).store.cart_items = cart_items \ {c}


\* the cart rows of the other users
NotMine == cart_items \ Mine

\* C25: remove_from_cart(cart_item_id) deletes exactly the one cart row with
\* that id when it belongs to the caller and leaves all other rows, and the
\* rest of the store, unchanged; when the row does not exist or belongs to
\* another user it fails with "Cart item not found." and deletes nothing.  No
\* call of remove_from_cart or update_cart_item removes or alters a cart row
\* of another user.
C25_RemoveDeletesOnlyOwnRow ==
    current_user # 0 =>
        /\ \A cart_item_id \in CartItemInputs :
               LET out == remove_from_cart(Store, current_user, cart_item_id)
                   rows == MineWithId(cart_item_id)
               IN IF rows = {}
                  THEN /\ out.ret = Failed("Cart item not found.", 0)
                       /\ out.store = Store
                  ELSE /\ out.ret.ok
                       /\ Cardinality(rows) = 1
                       /\ out.store =
                              [Store EXCEPT !.cart_items = @ \ rows]
        /\ \A cart_item_id \in CartItemInputs, quantity \in SignedQuantities,
              parses \in BOOLEAN :
               NotMine \subseteq
                   update_cart_item(Store, current_user, cart_item_id,
                                    quantity, parses).store.cart_items

\* the caller and another user each own a cart row: the caller's call with
\* the id of the other user's row is refused, and the call with the id of
\* the own row removes that row only
C25_Witness ==
    /\ current_user # 0
    /\ \E mine \in Mine, other \in NotMine :
           /\ ~remove_from_cart(Store, current_user, other.id).ret.ok
           /\ ~update_cart_item(Store, current_user, other.id, 1,
                                TRUE).ret.ok
           /\ remove_from_cart(Store, current_user, mine.id).store.cart_items
                  = cart_items \ {mine}


\* the quantities of the order items in the set, summed
RECURSIVE SumQuantities(_)
SumQuantities(items) ==
    IF items = {} THEN 0
    ELSE LET i == CHOOSE j \in items : TRUE
         IN order_items[i].quantity + SumQuantities(items \ {i})

\* the units of the product that the order items sell
Sold(product_id) ==
    SumQuantities({i \in DOMAIN order_items :
                      order_items[i].product_id = product_id})

\* C26: checkout has a check-then-act race.  A process that has validated
\* its cart writes and commits without looking at the stock again: whatever
\* the other processes have committed since it read the stock, it creates
\* its order with every item it validated and stores, for each, the stock it
\* read minus the quantity.  So two checkouts of different users that both
\* validate against the same stock both commit, also when their combined
\* quantity exceeds it.
C26_ValidatedCheckoutCommitsUnchecked ==
    \A u \in DOMAIN users :
        sessions[u].pc = "validated" =>
            LET session == sessions[u]
                out == write_checkout(Store, u, session)
            IN /\ out.ret.ok
               /\ Len(out.store.orders) = Len(orders) + 1
               /\ out.store.orders[Len(orders) + 1].user_id = u
               /\ Len(out.store.order_items)
                      = Len(order_items) + Len(session.items)
               /\ \A i \in DOMAIN session.items :
                      LET item == session.items[i] IN
                      /\ out.store.order_items[Len(order_items) + i].quantity
                             = item.quantity
                      /\ out.store.products[item.product_id].stock_quantity
                             = session.stock[item.product_id] - item.quantity

\* two users have ordered the same product, each order validated against
\* the stock there was, and the units sold exceed that stock
C26_Witness ==
    \E p \in DOMAIN products, i, j \in DOMAIN order_items :
        /\ order_items[i].product_id = p
        /\ order_items[j].product_id = p
        /\ orders[order_items[i].order_id].user_id
               # orders[order_items[j].order_id].user_id
        /\ order_items[i].quantity <= InitialProducts[p].stock_quantity
        /\ order_items[j].quantity <= InitialProducts[p].stock_quantity
        /\ Sold(p) > InitialProducts[p].stock_quantity


\* every row of the table has a quantity of 1 or more
AllPositive(rows) == \A c \in rows : c.quantity >= 1

\* C27: every cart row has quantity >= 1 in every reachable state:
\* add_to_cart rejects a quantity <= 0 and stores nothing, update_cart_item
\* with a quantity <= 0 removes the row instead of storing the quantity, and
\* no call leaves a row with a quantity below 1.
C27_CartQuantitiesPositive ==
    /\ AllPositive(cart_items)
    /\ \A product_id \in ProductInputs, quantity \in SignedQuantities :
           LET out == add_to_cart(Store, current_user, product_id, quantity,
                                  TRUE)
           IN /\ AllPositive(out.store.cart_items)
              /\ quantity <= 0 => Refuses(out)
    /\ \A cart_item_id \in CartItemInputs, quantity \in SignedQuantities :
           LET out == update_cart_item(Store, current_user, cart_item_id,
                                       quantity, TRUE)
           IN /\ AllPositive(out.store.cart_items)
              /\ quantity <= 0 =>
                     out.store.cart_items
                         = cart_items \ MineWithId(cart_item_id)

\* the caller owns a row: add_to_cart of 0 or -1 units of its product is
\* refused, and update_cart_item of the row to 0 or -1 removes the row
C27_Witness ==
    /\ current_user # 0
    /\ \E c \in Mine :
           \A quantity \in {0, -1} :
               /\ ~add_to_cart(Store, current_user, c.product_id, quantity,
                               TRUE).ret.ok
               /\ update_cart_item(Store, current_user, c.id, quantity,
                                   TRUE).store.cart_items = cart_items \ {c}


\* no two rows of the table are of the same user and product
OneRowPerProduct(rows) ==
    \A c, d \in rows :
        (c.user_id = d.user_id /\ c.product_id = d.product_id) => c = d

\* C28: in every state reached by operations called one after the other
\* there is at most one cart row per (user, product) pair: add_to_cart never
\* inserts a second row for a product already in the caller's cart, it adds
\* to the quantity of the row there is, so the lines that checkout validates
\* against the stock are of distinct products.
C28_OneCartRowPerUserAndProduct ==
    /\ OneRowPerProduct(cart_items)
    /\ \A product_id \in ProductInputs, quantity \in QuantityInputs :
           LET out == add_to_cart(Store, current_user, product_id, quantity,
                                  TRUE)
           IN /\ OneRowPerProduct(out.store.cart_items)
              /\ (out.ret.ok
                  /\ \E c \in Mine : c.product_id = product_id)
                     => /\ Cardinality(out.store.cart_items)
                               = Cardinality(cart_items)
                        /\ out.store.next_cart_id = next_cart_id
    /\ current_user # 0 =>
           LET lines == SortById(Mine)
           IN \A i, j \in DOMAIN lines :
                  lines[i].product_id = lines[j].product_id => i = j

\* the caller's cart holds a row of a product, and one more unit of that
\* product is accepted: the quantity of the row grows, no row is inserted
C28_Witness ==
    /\ current_user # 0
    /\ \E c \in Mine :
           LET out == add_to_cart(Store, current_user, c.product_id, 1, TRUE)
           IN /\ out.ret.ok
              /\ out.store.cart_items
                     = (cart_items \ {c})
                       \cup {[c EXCEPT !.quantity = c.quantity + 1]}


\* every order of the store has an order item
EveryOrderHasAnItem(s) ==
    \A o \in DOMAIN s.orders :
        \E i \in DOMAIN s.order_items : s.order_items[i].order_id = o

\* the store with one more line in the current user's cart, whose product
\* row is not in the products table
WithLineOfMissingProduct ==
    [Store EXCEPT !.cart_items = @ \cup
        {[id |-> next_cart_id, user_id |-> current_user,
          product_id |-> Len(products) + 1, quantity |-> 1]}]

Units(product_id) == products[product_id].stock_quantity + Sold(product_id)

\* C30: units are conserved.  In every step of a run of operations called
\* one after the other, other than an update_product that gives the
\* product's stock_quantity, the sum of a product's stock_quantity and of
\* the quantities of all order items that reference it stays the same: a
\* checkout moves units from the stock to the order items, order items are
\* never deleted, and the stock is never restored, also not when an order is
\* set to CANCELLED.
C30_UnitsConserved ==
    [][\A p \in DOMAIN products :
           Units(p)' = Units(p) \/ StockEditStep(p)]_vars

\* an order with units of product 1 was cancelled: the units are still out
\* of the stock, which together with the units sold is the initial stock
C30_Witness ==
    \E i \in DOMAIN order_items :
        /\ order_items[i].product_id = 1
        /\ orders[order_items[i].order_id].status = "CANCELLED"
        /\ Sold(1) > 0
        /\ products[1].stock_quantity
               = InitialProducts[1].stock_quantity - Sold(1)

====
